---- MODULE Spec2Model ----
(***************************************************************************)
(* Model of the I2P transport for libp2p (package i2p, transport.go):      *)
(* the address translator, CanDial/Protocols, and the Dial / Listen /      *)
(* Close operations of I2PTransport against the SAM session provider, the  *)
(* resource manager and the upgrader.                                      *)
(***************************************************************************)
EXTENDS Integers, Sequences, FiniteSets, TLC

(***************************************************************************)
(* Bounds of the model.                                                    *)
(***************************************************************************)
\* longest destination string handed to the address translator
MaxStrLen == 4
\* longest multiaddr (number of components) handed to CanDial
MaxAddrLen == 2
\* largest outbound-port hint and largest name seed handed to the builder
MaxPort == 2
MaxSeed == 2
\* the number of connections a client dials to the peer's listener, one after another
MaxConns == 2
\* the number of transports built from one construction
MaxTransports == 2
\* the number of times a caller closes one transport
MaxCloses == 2

(***************************************************************************)
(* Multiaddr protocol tags.                                                *)
(***************************************************************************)
P_GARLIC64 == "garlic64"
P_GARLIC32 == "garlic32"
P_TCP == "tcp"
P_IP4 == "ip4"

Tags == {P_GARLIC64, P_GARLIC32, P_TCP, P_IP4}

\* the two overlay-destination tags
OverlayTags == {P_GARLIC64, P_GARLIC32}

(***************************************************************************)
(* Destination strings and their binary form.  The text alphabet is scaled *)
(* down to four digits (two bits each); one further character stands for   *)
(* every character outside the alphabet.  Two digits make one unit of the  *)
(* binary form a multiaddr component carries.                              *)
(***************************************************************************)
Alphabet == {0, 1, 2, 3}
Chars == Alphabet \cup {4}

RECURSIVE SeqsUpTo(_, _)
SeqsUpTo(S, n) ==
    IF n = 0 THEN {<<>>}
    ELSE LET shorter == SeqsUpTo(S, n - 1)
         IN  shorter \cup {Append(s, x) : s \in {t \in shorter : Len(t) = n - 1}, x \in S}

DestStrings == SeqsUpTo(Chars, MaxStrLen)

\* a syntactically valid destination encoding: whole units, alphabet only
ValidDestination(s) ==
    /\ Len(s) > 0
    /\ Len(s) % 2 = 0
    /\ \A i \in 1..Len(s) : s[i] \in Alphabet

RECURSIVE DecodeDest(_)
DecodeDest(s) ==
    IF Len(s) < 2 THEN <<>>
    ELSE <<s[1] * 4 + s[2]>> \o DecodeDest(SubSeq(s, 3, Len(s)))

RECURSIVE EncodeDestSwapped(_)
EncodeDestSwapped(b) ==
    IF Len(b) = 0 THEN <<>>
    ELSE <<b[1] % 4, b[1] \div 4>> \o EncodeDestSwapped(Tail(b))

RECURSIVE EncodeDest(_)
EncodeDest(b) ==
    IF Len(b) = 0 THEN <<>>
    ELSE <<b[1] \div 4, b[1] % 4>> \o EncodeDest(Tail(b))

\* toGenericAddress: destination string -> multiaddr
I2PAddrToMultiAddr(s) ==
    IF ValidDestination(s)
    THEN [err |-> "nil", addr |-> <<[tag |-> P_GARLIC64, val |-> DecodeDest(s)]>>]
    ELSE [err |-> "MalformedAddress", addr |-> <<>>]

\* a translation that knows the long overlay form only
MultiAddrToI2PAddrLongFormOnly(a) ==
    IF Len(a) > 0 /\ a[1].tag = P_GARLIC64
    THEN [err |-> "nil", dest |-> EncodeDest(a[1].val)]
    ELSE [err |-> "UnsupportedAddressFamily", dest |-> <<>>]

\* toDestinationString: multiaddr -> destination string
MultiAddrToI2PAddr(a) ==
    IF Len(a) > 0 /\ a[1].tag \in OverlayTags
    THEN [err |-> "nil", dest |-> EncodeDest(a[1].val)]
    ELSE [err |-> "UnsupportedAddressFamily", dest |-> <<>>]

(***************************************************************************)
(* dialMatcher = mafmt.Or(mafmt.Base(P_GARLIC64), mafmt.Base(P_GARLIC32))  *)
(***************************************************************************)
\* Multiaddr.Protocols(): the tags of the components, in order
ProtocolsOf(a) == [i \in 1..Len(a) |-> a[i].tag]

\* Base(p) consumes one leading component with tag p
BasePartialMatch(p, pcs) ==
    IF Len(pcs) = 0 THEN [ok |-> FALSE, rem |-> <<>>]
    ELSE IF pcs[1] = p THEN [ok |-> TRUE, rem |-> Tail(pcs)]
    ELSE [ok |-> FALSE, rem |-> <<>>]

\* Or(ps) keeps, among the patterns that match, the shortest remainder
RECURSIVE OrPartialMatch(_, _, _)
OrPartialMatch(ps, pcs, best) ==
    IF Len(ps) = 0 THEN best
    ELSE LET sub == BasePartialMatch(Head(ps), pcs)
             nxt == IF sub.ok
                    THEN [ok |-> TRUE,
                          rem |-> IF Len(sub.rem) < Len(best.rem) THEN sub.rem ELSE best.rem]
                    ELSE best
         IN  OrPartialMatch(Tail(ps), pcs, nxt)

dialMatcher == <<P_GARLIC64, P_GARLIC32>>

\* a matcher that accepts any address starting with an overlay component
CanDialPrefix(addr) ==
    OrPartialMatch(dialMatcher, ProtocolsOf(addr), [ok |-> FALSE, rem |-> ProtocolsOf(addr)]).ok

\* a matcher that accepts every address
CanDialAny(addr) == TRUE

\* Pattern.Matches: the pattern matches and consumes the whole address
CanDial(addr) ==
    LET m == OrPartialMatch(dialMatcher, ProtocolsOf(addr),
                            [ok |-> FALSE, rem |-> ProtocolsOf(addr)])
    IN  m.ok /\ Len(m.rem) = 0

\* Protocols(): the list the transport reports as dialable
Protocols == <<P_GARLIC64, P_GARLIC32, P_TCP>>

(***************************************************************************)
(* Addresses and destinations used by the operations.                      *)
(***************************************************************************)
\* the destination the router issued to this transport, and a remote peer's
OwnDest == <<1, 2>>
PeerDest == <<3, 0, 2, 1>>
\* a destination string cut short in the middle of a unit
TruncatedDest == <<1>>

OwnAddr == I2PAddrToMultiAddr(OwnDest).addr
PeerAddr == I2PAddrToMultiAddr(PeerDest).addr
TcpAddr == <<[tag |-> P_IP4, val |-> <<1>>], [tag |-> P_TCP, val |-> <<7>>]>>

\* the addresses callers hand to Dial and to Listen
DialAddrs == {PeerAddr, TcpAddr}
ListenArgs == {OwnAddr, PeerAddr, TcpAddr}

\* the components of the addresses handed to CanDial
Components == {[tag |-> t, val |-> v] : t \in Tags, v \in {<<1>>, <<7>>}}
CanDialInputs == SeqsUpTo(Components, MaxAddrLen)

\* the concurrent Dial calls of the callers
Dials == {"dialA", "dialB"}

Sessions == {"primary", "inbound", "outbound"}

(***************************************************************************)
(* State.                                                                  *)
(***************************************************************************)
VARIABLES
    Upgrader,         \* I2PTransport.Upgrader: "set" or "nil"
    ResourceManager,  \* I2PTransport.ResourceManager: "set" or "nil"
    sessions,         \* the provider's state of the three SAM sessions
    dial,             \* per Dial call: its position, locals and effects
    lastListen,       \* the last Listen call: provider call and outcome
    listenArg,        \* the argument of the last Listen call
    q,                \* the last query of a pure operation and its answer
    build,            \* I2PTransportBuilder: its position, inputs and provider calls
    net,              \* the peer transport's listener and the raw connections to it
    script,           \* the readiness scripts: position, readings, exit codes
    rand,             \* the process-wide source of math/rand: its seed and draws
    ctors,            \* per call of I2PTransportBuilder: its seed, suffix and names
    closes            \* the calls of Close() and the close requests the provider got

vars == <<Upgrader, ResourceManager, sessions, dial, lastListen, listenArg, q, build,
          net, script, rand, ctors, closes>>
transportVars == <<Upgrader, ResourceManager, sessions, dial, lastListen, listenArg,
                   build, net, script, rand, ctors, closes>>
transportVarsButScript == <<Upgrader, ResourceManager, sessions, dial, lastListen,
                            listenArg, q, build, net, rand, ctors, closes>>

NoResult == [conn |-> "nil", err |-> "nil"]
NoAddrs == [local |-> <<>>, remote |-> <<>>]

\* the locals and effects of a Dial call that has not started
IdleDial ==
    [pc |-> "idle",
     addr |-> <<>>,             \* remoteAddress
     ctx |-> "live",            \* the caller's context
     ctxAtCall |-> "live",      \* the context when Dial was called
     err |-> "nil",             \* the local variable err
     rawConn |-> "none",        \* conn: none, nil, open, closed
     rawCloses |-> 0,           \* Close calls that reached the raw connection
     scope |-> "none",          \* connScope: none, open, done
     scopeDones |-> 0,          \* Done calls on connScope
     deferred |-> FALSE,        \* the deferred release is registered
     nTranslate |-> 0,          \* calls of MultiAddrToI2PAddr
     nDial |-> 0,               \* calls of outboundSession.DialI2P
     nOpen |-> 0,               \* calls of ResourceManager.OpenConnection
     nUpgrade |-> 0,            \* calls of Upgrader.Upgrade
     cancelAt |-> "none",       \* where the Dial stood when ctx was cancelled
     closedAtCall |-> FALSE,    \* Close() had been called when Dial was called
     dest |-> <<>>,             \* i2pAddr, the translated destination
     dialSession |-> "none",    \* the session DialI2P was invoked on
     rawId |-> 0,               \* the raw connection held, as the peer knows it
     addrs |-> NoAddrs,         \* the addresses of the wrapped connection
     connCloses |-> 0,          \* calls of Close() on the connection Dial returned
     result |-> NoResult]

NoListen ==
    [session |-> "none", outcome |-> "none", rawOpen |-> FALSE,
     nListen |-> 0,             \* calls of inboundSession.Listen
     accept |-> "none"]         \* what the last Accept on the listener returned
NoNet == [listening |-> FALSE, conns |-> <<>>]
NoQuery == [kind |-> "none"]
NoCloses == [calls |-> 0, requests |-> <<>>]
IdleScript == [pc |-> "idle"]

(***************************************************************************)
(* I2PTransportBuilder: the session manager.                               *)
(***************************************************************************)
\* the outbound-port hints and the name seeds callers hand to the builder
HintPorts == 0..MaxPort
Seeds == 0..MaxSeed

\* strconv.Itoa(rand.Int()) after rand.Seed(seed): a function of the seed
RandSessionSuffix(seed) == (5 * seed + 3) % 7

\* the process-wide source before any rand.Seed
FreshSource == [seed |-> 0, drawn |-> 0]

\* rand.Seed(seed): the process-wide source starts the sequence of seed anew
Seeded(seed) == [seed |-> seed, drawn |-> 0]

\* rand.Int() on the process-wide source: the next value of the sequence of
\* the seed last set, and the source one draw further
RandInt(src) ==
    [value |-> (RandSessionSuffix(src.seed) + 2 * src.drawn) % 7,
     source |-> [src EXCEPT !.drawn = @ + 1]]

\* the session-name prefixes, in the order the builder requests the sessions
CreationOrder == <<"primarySession", "inboundSession", "outboundSession">>

\* the calls of I2PTransportBuilder that run side by side
Ctors == {"ctorA", "ctorB"}

IdleCtor ==
    [pc |-> "idle",
     seed |-> 0,                \* rngSeed
     suffix |-> 0,              \* randSessionSuffix
     names |-> <<>>]            \* the session names requested of the provider

\* the port of a sub-session created without ports (default/any port)
DefaultPort == 0
\* the FROM_PORT and TO_PORT the builder gives the outbound sub-session
OutboundFromPort == 1
OutboundToPort == 0

\* NewStreamSubSession(id): a STREAM sub-session on the default ports
InboundBinding == [proto |-> "STREAM", from |-> DefaultPort, to |-> DefaultPort]

\* an outbound sub-session bound to the port the caller hints at
OutboundBindingFromHint(hint) ==
    [proto |-> "STREAM", from |-> hint, to |-> OutboundToPort]

\* NewStreamSubSessionWithPorts(id, "1", "0"): the hint is not used
OutboundBinding(hint) ==
    [proto |-> "STREAM", from |-> OutboundFromPort, to |-> OutboundToPort]

IdleBuild ==
    [pc |-> "idle",
     hint |-> 0,                \* outboundPort
     seed |-> 0,                \* rngSeed
     suffix |-> 0,              \* randSessionSuffix
     calls |-> <<>>,            \* the session creations the provider received
     err |-> "nil",             \* the error returned
     addr |-> <<>>,             \* i2pDestination, the listening address returned
     transports |-> <<>>]       \* per transport built: the sessions it refers to

\* rand.Seed(int64(rngSeed)); randSessionSuffix := strconv.Itoa(rand.Int())
StartBuild(hint, seed) ==
    [IdleBuild EXCEPT !.pc = "primary", !.hint = hint, !.seed = seed,
                      !.suffix = RandSessionSuffix(seed)]

\* a construction that goes on to the sub-sessions after the primary failed
AfterPrimaryCarriesOn(b, out) ==
    LET b1 == [b EXCEPT !.calls = Append(@, [kind |-> "primary",
                                            name |-> <<"primarySession", b.suffix>>,
                                            binding |-> "none"])]
    IN  IF out = "err"
        THEN [b1 EXCEPT !.pc = "inbound", !.err = "PrimarySessionFailed"]
        ELSE [b1 EXCEPT !.pc = "inbound"]

\* sam.NewPrimarySession("primarySession-"+suffix, i2pKeys, Options_Default)
AfterPrimary(b, out) ==
    LET b1 == [b EXCEPT !.calls = Append(@, [kind |-> "primary",
                                            name |-> <<"primarySession", b.suffix>>,
                                            binding |-> "none"])]
    IN  IF out = "err"
        THEN [b1 EXCEPT !.pc = "failed", !.err = "PrimarySessionFailed"]
        ELSE [b1 EXCEPT !.pc = "inbound"]

\* samPrimarySession.NewStreamSubSession("inboundSession-"+suffix)
AfterInbound(b, out) ==
    LET b1 == [b EXCEPT !.calls = Append(@, [kind |-> "sub",
                                            name |-> <<"inboundSession", b.suffix>>,
                                            binding |-> InboundBinding])]
    IN  IF out = "err"
        THEN [b1 EXCEPT !.pc = "failed", !.err = "InboundSessionFailed"]
        ELSE [b1 EXCEPT !.pc = "outbound"]

\* samPrimarySession.NewStreamSubSessionWithPorts("outboundSession-"+suffix, "1", "0")
AfterOutbound(b, out) ==
    LET b1 == [b EXCEPT !.calls = Append(@, [kind |-> "sub",
                                            name |-> <<"outboundSession", b.suffix>>,
                                            binding |-> OutboundBinding(b.hint)])]
    IN  IF out = "err"
        THEN [b1 EXCEPT !.pc = "failed", !.err = "OutboundSessionFailed"]
        ELSE [b1 EXCEPT !.pc = "addr"]

\* i2pDestination, err := I2PAddrToMultiAddr(samPrimarySession.Addr().String())
AfterAddr(b, dest) ==
    LET t == I2PAddrToMultiAddr(dest)
    IN  IF t.err # "nil"
        THEN [b EXCEPT !.pc = "failed", !.err = t.err]
        ELSE [b EXCEPT !.pc = "done", !.addr = t.addr]

\* the sessions the builder function has captured: samPrimarySession,
\* inboundSession, outboundSession
CapturedSessions(b) == [i \in 1..Len(b.calls) |-> b.calls[i].name]

\* a builder function that opens an outbound session of its own per transport
AfterBuilderFuncNewSession(b) ==
    LET b1 == [b EXCEPT !.calls = Append(@, [kind |-> "sub",
                                            name |-> <<"outboundSession", b.suffix>>,
                                            binding |-> OutboundBinding(b.hint)])]
    IN  [b1 EXCEPT !.pc = "built", !.transports = Append(@, CapturedSessions(b1))]

\* the builder function is called and returns the transport: &I2PTransport{...}, nil
AfterBuilderFunc(b) ==
    [b EXCEPT !.pc = "built", !.transports = Append(@, CapturedSessions(b))]

\* a construction in which every step succeeded
BuiltTransport ==
    AfterBuilderFunc(
        AfterAddr(
            AfterOutbound(
                AfterInbound(
                    AfterPrimary(StartBuild(0, 0), "ok"), "ok"), "ok"), OwnDest))

\* the state after construction
Init ==
    /\ Upgrader \in {"set", "nil"}
    /\ ResourceManager \in {"set", "nil"}
    /\ sessions = [k \in Sessions |-> "open"]
    /\ dial = [d \in Dials |-> IdleDial]
    /\ lastListen = NoListen
    /\ listenArg = <<>>
    /\ q = NoQuery
    /\ build = BuiltTransport
    /\ net = NoNet
    /\ script = IdleScript
    /\ rand = RandInt(Seeded(BuiltTransport.seed)).source
    /\ ctors = [c \in Ctors |-> IdleCtor]
    /\ closes = NoCloses

CancellationErrors == {"DialCancelled", "UpgradeCancelled"}

(***************************************************************************)
(* Pieces of Dial.                                                         *)
(***************************************************************************)
\* conn.Close()
CloseRaw(r) ==
    [r EXCEPT !.rawConn = "closed", !.rawCloses = @ + 1]

\* Connection.Close(): the wrapper closes the raw connection it holds
ConnectionClose(r) == CloseRaw(r)

\* connScope.Done()
ScopeDone(r) ==
    [r EXCEPT !.scope = "done", !.scopeDones = @ + 1]

\* a deferred release that never runs
RunDeferredNever(r) == r

\* a deferred release that ignores err
RunDeferredAlways(r) ==
    IF r.deferred THEN ScopeDone(r) ELSE r

\* defer func() { if err != nil { connScope.Done() } }()
RunDeferred(r) ==
    IF r.deferred /\ r.err # "nil" THEN ScopeDone(r) ELSE r

\* return c, e: the deferred function runs, then the caller has the result
Return(r, c, e) ==
    [RunDeferred(r) EXCEPT !.pc = "returned", !.result = [conn |-> c, err |-> e]]

CtxErr(r) == r.ctx = "cancelled"

\* a pre-dial check that never sees the cancellation
PreDialCheckSkipped(r) == FALSE

\* if ctx.Err() != nil, before the raw dial
PreDialCancelled(r) == CtxErr(r)

\* a post-dial cancellation that forgets the connection
AfterDialCancelLeaks(r) ==
    Return(r, "nil", "DialCancelled")

\* ctx cancelled after the raw dial: close what was established
AfterDialCancel(r) ==
    Return(IF r.rawConn # "nil" THEN CloseRaw(r) ELSE r, "nil", "DialCancelled")

\* an upgrade result handed on unchecked
CheckUpgradedUnchecked(r, up) ==
    Return(r, up, "nil")

\* if upgradedConn == nil { if connScope != nil { connScope.Done() } ... }
CheckUpgraded(r, up) ==
    IF up = "nil"
    THEN Return(IF r.scope # "none" THEN ScopeDone(r) ELSE r, "nil", "UpgradeNilConn")
    ELSE Return(r, up, "nil")

(***************************************************************************)
(* Dial, one action per stretch of code between two points at which the    *)
(* context can be cancelled or a collaborator answers.                     *)
(***************************************************************************)
Others == <<Upgrader, ResourceManager, sessions, lastListen, listenArg, q, build, net,
            script, rand, ctors, closes>>

\* a Dial that asks the primary session for the connection
DialSessionPrimary == "primary"

\* the session Dial asks for the connection: i2p.outboundSession.DialI2P(...)
DialSession == "outbound"

\* a Dial that hands its own destination to DialI2P
DialTargetLocal(r) == OwnDest

\* the destination handed to DialI2P: i2pkeys.I2PAddr(i2pAddr)
DialTarget(r) == r.dest

\* Dial(ctx, remoteAddress, peerID) up to the call of outboundSession.DialI2P:
\* dialability check, translation, cancellation pre-check
BeforeRawDial(addr, c, closed) ==
    LET r0 == [IdleDial EXCEPT !.addr = addr, !.ctx = c, !.ctxAtCall = c,
                               !.closedAtCall = closed]
    IN  IF ~CanDial(addr)
        THEN Return(r0, "nil", "NotDialable")
        ELSE LET t  == MultiAddrToI2PAddr(addr)
                 r1 == [r0 EXCEPT !.nTranslate = @ + 1, !.err = t.err, !.dest = t.dest]
             IN  IF t.err # "nil"
                 THEN Return(r1, "nil", "AddressTranslationFailed")
                 ELSE IF PreDialCancelled(r1)
                 THEN Return(r1, "nil", "DialCancelled")
                 ELSE [r1 EXCEPT !.pc = "rawdial", !.nDial = @ + 1,
                                 !.dialSession = DialSession]

\* Dial is called: dialability check, translation, cancellation pre-check,
\* and the call of outboundSession.DialI2P
DialCall(d, addr, c) ==
    /\ dial[d].pc \in {"idle", "returned"}
    /\ dial' = [dial EXCEPT
                  ![d] = BeforeRawDial(addr, c, sessions["primary"] = "closed")]
    /\ UNCHANGED Others

\* a cancellation that makes a Dial in its raw dial return at once
CancelPreempts(d) ==
    /\ dial[d].pc \notin {"idle", "returned"}
    /\ dial[d].ctx = "live"
    /\ dial' = [dial EXCEPT ![d] =
                  LET r == [dial[d] EXCEPT !.ctx = "cancelled", !.cancelAt = dial[d].pc]
                  IN  IF r.pc = "rawdial" THEN Return(r, "nil", "DialCancelled") ELSE r]
    /\ UNCHANGED Others

\* the context of a Dial in progress, once cancelled
Cancelled(r) == [r EXCEPT !.ctx = "cancelled", !.cancelAt = r.pc]

\* the caller cancels the context of a Dial in progress
Cancel(d) ==
    /\ dial[d].pc \notin {"idle", "returned"}
    /\ dial[d].ctx = "live"
    /\ dial' = [dial EXCEPT ![d] = Cancelled(dial[d])]
    /\ UNCHANGED Others

\* a provider that still connects on a session that was torn down
RawDialOutcomesAny == {"conn", "err", "nil"}

\* what the provider can answer to DialI2P
RawDialOutcomes ==
    IF sessions[DialSession] = "open" THEN {"conn", "err", "nil"} ELSE {"err"}

\* the raw connection as the listening peer sees it: its remote Destination is
\* the dialer's, which the sub-sessions share with their primary session
NewRawConn(d, dest) ==
    [slot |-> d, from |-> OwnDest, to |-> dest, accepted |-> FALSE, remote |-> <<>>,
     c2s |-> <<>>, srvRead |-> <<>>, s2c |-> <<>>, cliRead |-> <<>>]

\* a connection established towards the peer's Destination reaches the peer's
\* listener, if the peer is listening
Reaches(n, dest, out) == out = "conn" /\ n.listening /\ dest = PeerDest

Deliver(n, d, dest, out) ==
    IF Reaches(n, dest, out)
    THEN [n EXCEPT !.conns = Append(@, NewRawConn(d, dest))]
    ELSE n

\* conn, err := ...: what Dial holds once DialI2P has answered
RawDialAnswer(r, out, id) ==
    [r EXCEPT !.pc = "postdial",
              !.err = IF out = "err" THEN "DialErr" ELSE "nil",
              !.rawConn = CASE out = "conn" -> "open"
                            [] out = "nil" -> "nil"
                            [] OTHER -> "none",
              !.rawId = id]

\* conn, err := i2p.outboundSession.DialI2P(...) returns
RawDialReturn(d, out) ==
    /\ dial[d].pc = "rawdial"
    /\ out \in RawDialOutcomes
    /\ dial' = [dial EXCEPT
                  ![d] = RawDialAnswer(dial[d], out,
                                       IF Reaches(net, DialTarget(dial[d]), out)
                                       THEN Len(net.conns) + 1 ELSE 0)]
    /\ net' = Deliver(net, d, DialTarget(dial[d]), out)
    /\ UNCHANGED <<Upgrader, ResourceManager, sessions, lastListen, listenArg, q, build,
                   script, rand, ctors, closes>>

\* a Dial that answers a failed raw dial by creating the outbound session anew
PostDialCheckRecreates(d) ==
    /\ dial[d].pc = "postdial"
    /\ LET r == dial[d]
       IN  /\ dial' = [dial EXCEPT ![d] =
                  IF r.err # "nil"
                  THEN IF CtxErr(r) THEN Return(r, "nil", "DialCancelled")
                       ELSE Return(r, "nil", "DialFailed")
                  ELSE IF CtxErr(r) THEN AfterDialCancel(r)
                  ELSE IF r.rawConn = "nil" THEN Return(r, "nil", "NilConn")
                  ELSE [r EXCEPT !.pc = "resolve"]]
           /\ build' = IF r.err # "nil" /\ ~CtxErr(r)
                       THEN [AfterOutbound(build, "ok") EXCEPT !.pc = build.pc]
                       ELSE build
           /\ sessions' = IF r.err # "nil" /\ ~CtxErr(r)
                          THEN [sessions EXCEPT !["outbound"] = "open"]
                          ELSE sessions
    /\ UNCHANGED <<Upgrader, ResourceManager, lastListen, listenArg, q, net, script, rand, ctors, closes>>

\* a Dial that reports every raw dial error as DialFailed
AfterRawDialNoPriority(r) ==
    IF r.err # "nil"
    THEN Return(r, "nil", "DialFailed")
    ELSE IF CtxErr(r) THEN AfterDialCancel(r)
    ELSE IF r.rawConn = "nil" THEN Return(r, "nil", "NilConn")
    ELSE [r EXCEPT !.pc = "resolve"]

\* a Dial that dials once more after a raw dial error
AfterRawDialRetries(r) ==
    IF r.err # "nil"
    THEN IF CtxErr(r) THEN Return(r, "nil", "DialCancelled")
         ELSE IF r.nDial < 2
         THEN [r EXCEPT !.pc = "rawdial", !.nDial = @ + 1, !.err = "nil"]
         ELSE Return(r, "nil", "DialFailed")
    ELSE IF CtxErr(r) THEN AfterDialCancel(r)
    ELSE IF r.rawConn = "nil" THEN Return(r, "nil", "NilConn")
    ELSE [r EXCEPT !.pc = "resolve"]

\* if err != nil { if ctx.Err() != nil {...}; ... }; if ctx.Err() != nil {...};
\* if conn == nil {...}
AfterRawDial(r) ==
    IF r.err # "nil"
    THEN IF CtxErr(r) THEN Return(r, "nil", "DialCancelled")
         ELSE Return(r, "nil", "DialFailed")
    ELSE IF CtxErr(r) THEN AfterDialCancel(r)
    ELSE IF r.rawConn = "nil" THEN Return(r, "nil", "NilConn")
    ELSE [r EXCEPT !.pc = "resolve"]

\* the checks that follow the raw dial
PostDialCheck(d) ==
    /\ dial[d].pc = "postdial"
    /\ dial' = [dial EXCEPT ![d] = AfterRawDial(dial[d])]
    /\ UNCHANGED Others

\* the strings outboundSession.LocalAddr() can report
LocalAddrReports == {OwnDest, TruncatedDest}

\* NewConnection(conn, localAddress, remoteAddress)
NewConnection(w) == IF w = "ok" THEN "nil" ELSE "WrapErr"

\* a wrap that is handed the two addresses in the wrong order
ConnAddrsSwapped(localAddress, remoteAddress) ==
    [local |-> remoteAddress, remote |-> localAddress]

\* the addresses the wrapped connection is given
ConnAddrs(localAddress, remoteAddress) ==
    [local |-> localAddress, remote |-> remoteAddress]

\* localAddress from outboundSession.LocalAddr(), then NewConnection(...)
Wrap(r, la, w) ==
    LET t  == I2PAddrToMultiAddr(la)
        r1 == [r EXCEPT !.err = t.err]
        r2 == [r EXCEPT !.err = NewConnection(w)]
    IN  IF t.err # "nil"
        THEN Return(CloseRaw(r1), "nil", "LocalAddrFailed")
        ELSE IF r2.err # "nil"
        THEN Return(CloseRaw(r2), "nil", "AdapterConstructionFailed")
        ELSE [r2 EXCEPT !.pc = "preupgrade", !.addrs = ConnAddrs(t.addr, r.addr)]

\* local address resolution and adapter wrap
ResolveAndWrap(d, la, w) ==
    /\ dial[d].pc = "resolve"
    /\ la \in LocalAddrReports
    /\ w \in {"ok", "err"}
    /\ dial' = [dial EXCEPT ![d] = Wrap(dial[d], la, w)]
    /\ UNCHANGED Others

\* if i2p.Upgrader == nil {...}; if ctx.Err() != nil {...}
BeforeUpgrade(r, upg) ==
    IF upg = "nil"
    THEN Return(ConnectionClose(r), "nil", "UpgraderNil")
    ELSE IF CtxErr(r)
    THEN Return(ConnectionClose(r), "nil", "DialCancelled")
    ELSE [r EXCEPT !.pc = "scope"]

\* the upgrader check and the cancellation check before the upgrade
PreUpgradeCheck(d) ==
    /\ dial[d].pc = "preupgrade"
    /\ dial' = [dial EXCEPT ![d] = BeforeUpgrade(dial[d], Upgrader)]
    /\ UNCHANGED Others

\* a Dial that goes on to the upgrade when OpenConnection fails
OpenScopeIgnoresError(r, rm, out) ==
    IF rm = "nil"
    THEN [r EXCEPT !.pc = "upgrade", !.nUpgrade = @ + 1]
    ELSE IF out = "err"
    THEN [r EXCEPT !.pc = "upgrade", !.nOpen = @ + 1, !.err = "ScopeErr",
                   !.nUpgrade = @ + 1]
    ELSE [r EXCEPT !.pc = "upgrade", !.nOpen = @ + 1, !.err = "nil",
                   !.scope = "open", !.deferred = TRUE, !.nUpgrade = @ + 1]

\* a Dial that calls the upgrade pipeline without asking the resource manager
OpenScopeSkipped(r, rm, out) ==
    [r EXCEPT !.pc = "upgrade", !.nUpgrade = @ + 1]

\* a Dial that refuses to go on without a resource manager
OpenScopeRequiresManager(r, rm, out) ==
    IF rm = "nil"
    THEN Return(ConnectionClose(r), "nil", "ResourceLimitExceeded")
    ELSE IF out = "err"
    THEN Return(ConnectionClose([r EXCEPT !.err = "ScopeErr", !.nOpen = @ + 1]),
                "nil", "ResourceLimitExceeded")
    ELSE [r EXCEPT !.pc = "upgrade", !.nOpen = @ + 1, !.err = "nil",
                   !.scope = "open", !.deferred = TRUE, !.nUpgrade = @ + 1]

\* if i2p.ResourceManager != nil { connScope, err = OpenConnection(...); ... },
\* up to the call of Upgrader.Upgrade
OpenScope(r, rm, out) ==
    IF rm = "nil"
    THEN [r EXCEPT !.pc = "upgrade", !.nUpgrade = @ + 1]
    ELSE IF out = "err"
    THEN Return(ConnectionClose([r EXCEPT !.err = "ScopeErr", !.nOpen = @ + 1]),
                "nil", "ResourceLimitExceeded")
    ELSE [r EXCEPT !.pc = "upgrade", !.nOpen = @ + 1, !.err = "nil",
                   !.scope = "open", !.deferred = TRUE, !.nUpgrade = @ + 1]

\* scope acquisition, then the call of Upgrader.Upgrade
AcquireScope(d, out) ==
    /\ dial[d].pc = "scope"
    /\ out \in IF ResourceManager = "nil" THEN {"ok"} ELSE {"ok", "err"}
    /\ dial' = [dial EXCEPT ![d] = OpenScope(dial[d], ResourceManager, out)]
    /\ UNCHANGED Others

\* what the upgrade pipeline can answer: (conn, nil), (nil, err), (nil, nil), (conn, err)
UpgradeOutcomes == {"conn", "err", "nilnil", "connerr"}

\* if err != nil { outboundConnection.Close(); if ctx.Err() != nil {...}; ... };
\* if upgradedConn == nil {...}; return upgradedConn, nil
AfterUpgrade(r0, out) ==
    LET r  == [r0 EXCEPT !.err = IF out \in {"err", "connerr"}
                                 THEN "UpgradeErr" ELSE "nil"]
        up == IF out \in {"conn", "connerr"} THEN "upgraded" ELSE "nil"
    IN  IF r.err # "nil"
        THEN IF CtxErr(r)
             THEN Return(ConnectionClose(r), "nil", "UpgradeCancelled")
             ELSE Return(ConnectionClose(r), "nil", "UpgradeFailed")
        ELSE CheckUpgraded(r, up)

\* a Dial whose failed upgrade tears down the raw connections of every Dial
UpgradeReturnClosesAll(d, out) ==
    /\ dial[d].pc = "upgrade"
    /\ out \in UpgradeOutcomes
    /\ dial' = [e \in Dials |->
                  IF e = d THEN AfterUpgrade(dial[d], out)
                  ELSE IF out \in {"err", "connerr"} /\ dial[e].rawConn = "open"
                  THEN CloseRaw(dial[e])
                  ELSE dial[e]]
    /\ UNCHANGED Others

\* upgradedConn, err := i2p.Upgrader.Upgrade(...) returns
UpgradeReturn(d, out) ==
    /\ dial[d].pc = "upgrade"
    /\ out \in UpgradeOutcomes
    /\ dial' = [dial EXCEPT ![d] = AfterUpgrade(dial[d], out)]
    /\ UNCHANGED Others

(***************************************************************************)
(* Listen and Close.                                                       *)
(***************************************************************************)
\* a Listen that picks the session by the address it is given
ListenSessionByArg(arg) ==
    IF arg = OwnAddr THEN "inbound" ELSE "outbound"

\* the session Listen asks for the raw listener: i2p.inboundSession.Listen()
ListenSession(arg) == "inbound"

\* NewTransportListener(streamListener)
NewTransportListener(w) == IF w = "ok" THEN "nil" ELSE "WrapErr"

\* Listen(arg) up to the record of its argument: the provider call and the
\* outcome (lo: the answer of Listen(); wo: of the wrap, reached only after "ok")
ListenEffect(arg, lo, wo) ==
    /\ lo \in {"ok", "err"}
    /\ wo \in IF lo = "err" THEN {"ok"} ELSE {"ok", "err"}
    /\ LET l == [NoListen EXCEPT !.session = ListenSession(arg), !.nListen = @ + 1]
       IN  lastListen' =
              IF lo = "err"
              THEN [l EXCEPT !.outcome = "ListenFailed"]
              ELSE IF NewTransportListener(wo) # "nil"
              THEN [l EXCEPT !.outcome = "WrapFailed", !.rawOpen = TRUE]
              ELSE IF Upgrader = "nil"
              THEN [l EXCEPT !.outcome = "panic", !.rawOpen = TRUE]
              ELSE [l EXCEPT !.outcome = "listener", !.rawOpen = TRUE]
    /\ UNCHANGED <<Upgrader, ResourceManager, sessions, dial, q, build, net, script, rand, ctors, closes>>

Listen(arg, lo, wo) ==
    /\ arg \in ListenArgs
    /\ ListenEffect(arg, lo, wo)
    /\ listenArg' = arg

\* what the provider's accept can answer on the listener's session
AcceptOutcomes ==
    IF lastListen.session \in Sessions /\ sessions[lastListen.session] = "open"
    THEN {"conn", "err"} ELSE {"err"}

\* Accept() on the listener the last Listen returned: the raw listener yields a
\* connection or an error; no session is involved beyond the listener's own
Accept(out) ==
    /\ lastListen.outcome = "listener"
    /\ out \in AcceptOutcomes
    /\ lastListen' = [lastListen EXCEPT !.accept = out]
    /\ UNCHANGED <<Upgrader, ResourceManager, sessions, dial, listenArg, q, build, net,
                   script, rand, ctors, closes>>

\* a Close that leaves the sub-sessions registered
ClosePrimaryOnly(s) == [s EXCEPT !["primary"] = "closed"]

\* i2p.primarySession.Close(): the provider tears down the sub-sessions with it
CloseSessions(s) == [k \in Sessions |-> "closed"]

\* a Close that spares the provider a second request
CloseRequestsGuarded(s) ==
    IF s["primary"] = "closed" THEN <<>> ELSE <<"primary">>

\* the sessions Close() asks the provider to close: i2p.primarySession.Close()
CloseRequests(s) == <<"primary">>

\* Close()
Close ==
    /\ sessions' = CloseSessions(sessions)
    /\ closes' = [calls |-> closes.calls + 1,
                  requests |-> closes.requests \o CloseRequests(sessions)]
    /\ UNCHANGED <<Upgrader, ResourceManager, dial, lastListen, listenArg, q, build, net,
                   script, rand, ctors>>

Next ==
    \/ \E d \in Dials, addr \in DialAddrs, c \in {"live", "cancelled"} : DialCall(d, addr, c)
    \/ \E d \in Dials : Cancel(d)
    \/ \E d \in Dials, out \in {"conn", "err", "nil"} : RawDialReturn(d, out)
    \/ \E d \in Dials : PostDialCheck(d)
    \/ \E d \in Dials, la \in LocalAddrReports, w \in {"ok", "err"} : ResolveAndWrap(d, la, w)
    \/ \E d \in Dials : PreUpgradeCheck(d)
    \/ \E d \in Dials, out \in {"ok", "err"} : AcquireScope(d, out)
    \/ \E d \in Dials, out \in UpgradeOutcomes : UpgradeReturn(d, out)
    \/ \E arg \in ListenArgs, lo \in {"ok", "err"}, wo \in {"ok", "err"} : Listen(arg, lo, wo)
    \/ \E out \in {"conn", "err"} : Accept(out)
    \* here the caller closes the transport once; SpecClose closes it repeatedly
    \/ closes.calls = 0 /\ Close

Spec == Init /\ [][Next]_vars

(***************************************************************************)
(* The pure operations, applied to inputs drawn from bounded sets.         *)
(***************************************************************************)
QueryCanDial(a) ==
    /\ q = NoQuery
    /\ q' = [kind |-> "CanDial", addr |-> a, out |-> CanDial(a)]
    /\ UNCHANGED transportVars

QueryProtocols ==
    /\ q = NoQuery
    /\ q' = [kind |-> "Protocols", out |-> Protocols]
    /\ UNCHANGED transportVars

\* a destination string is turned into a multiaddr and, if that succeeds, back
QueryTranslate(s) ==
    /\ q = NoQuery
    /\ LET fwd == I2PAddrToMultiAddr(s)
       IN  q' = [kind |-> "Translate", dest |-> s, fwd |-> fwd,
                 back |-> IF fwd.err = "nil" THEN MultiAddrToI2PAddr(fwd.addr)
                          ELSE [err |-> "none", dest |-> <<>>]]
    /\ UNCHANGED transportVars

\* the first two steps of Dial on an address: i2p.CanDial(remoteAddress) and
\* MultiAddrToI2PAddr(remoteAddress)
QueryDialTranslate(a) ==
    /\ q = NoQuery
    /\ q' = [kind |-> "DialTranslate", addr |-> a, canDial |-> CanDial(a),
             out |-> MultiAddrToI2PAddr(a)]
    /\ UNCHANGED transportVars

NextAddr ==
    \/ \E a \in CanDialInputs : QueryCanDial(a)
    \/ \E a \in CanDialInputs : QueryDialTranslate(a)
    \/ QueryProtocols
    \/ \E s \in DestStrings : QueryTranslate(s)

SpecAddr == Init /\ [][NextAddr]_vars

(***************************************************************************)
(* Construction, step by step, from the state before it.                   *)
(***************************************************************************)
InitBuild ==
    /\ Upgrader = "nil"
    /\ ResourceManager = "nil"
    /\ sessions = [k \in Sessions |-> "none"]
    /\ dial = [d \in Dials |-> IdleDial]
    /\ lastListen = NoListen
    /\ listenArg = <<>>
    /\ q = NoQuery
    /\ build = IdleBuild
    /\ net = NoNet
    /\ script = IdleScript
    /\ rand = FreshSource
    /\ ctors = [c \in Ctors |-> IdleCtor]
    /\ closes = NoCloses

\* a construction that tears down what it created when a creation fails
SessionCreatedOrCleanedUp(s, k, out) ==
    IF out = "ok" THEN [s EXCEPT ![k] = "open"]
    ELSE [j \in Sessions |-> IF s[j] = "open" THEN "closed" ELSE s[j]]

\* what a session creation leaves at the provider: the new session when it
\* succeeds, and on failure nothing new and nothing closed (return nil, nil, err)
SessionCreated(s, k, out) ==
    IF out = "ok" THEN [s EXCEPT ![k] = "open"] ELSE s

BuildCall(hint, seed) ==
    /\ build.pc = "idle"
    /\ build' = StartBuild(hint, seed)
    /\ rand' = RandInt(Seeded(seed)).source
    /\ UNCHANGED <<Upgrader, ResourceManager, sessions, dial, lastListen, listenArg, q, net,
                   script, ctors, closes>>

NewPrimarySession(out) ==
    /\ build.pc = "primary"
    /\ build' = AfterPrimary(build, out)
    /\ sessions' = SessionCreated(sessions, "primary", out)
    /\ UNCHANGED <<Upgrader, ResourceManager, dial, lastListen, listenArg, q, net, script, rand, ctors, closes>>

NewStreamSubSession(out) ==
    /\ build.pc = "inbound"
    /\ build' = AfterInbound(build, out)
    /\ sessions' = SessionCreated(sessions, "inbound", out)
    /\ UNCHANGED <<Upgrader, ResourceManager, dial, lastListen, listenArg, q, net, script, rand, ctors, closes>>

NewStreamSubSessionWithPorts(out) ==
    /\ build.pc = "outbound"
    /\ build' = AfterOutbound(build, out)
    /\ sessions' = SessionCreated(sessions, "outbound", out)
    /\ UNCHANGED <<Upgrader, ResourceManager, dial, lastListen, listenArg, q, net, script, rand, ctors, closes>>

ListeningAddress(dest) ==
    /\ build.pc = "addr"
    /\ build' = AfterAddr(build, dest)
    /\ UNCHANGED <<Upgrader, ResourceManager, sessions, dial, lastListen, listenArg, q, net, script, rand, ctors, closes>>

BuilderFunc(upg, rc) ==
    /\ build.pc \in {"done", "built"}
    /\ Len(build.transports) < MaxTransports
    /\ build' = AfterBuilderFunc(build)
    /\ Upgrader' = upg
    /\ ResourceManager' = rc
    /\ UNCHANGED <<sessions, dial, lastListen, listenArg, q, net, script, rand, ctors, closes>>

NextBuild ==
    \/ \E hint \in HintPorts, seed \in Seeds : BuildCall(hint, seed)
    \/ \E out \in {"ok", "err"} : NewPrimarySession(out)
    \/ \E out \in {"ok", "err"} : NewStreamSubSession(out)
    \/ \E out \in {"ok", "err"} : NewStreamSubSessionWithPorts(out)
    \/ \E dest \in LocalAddrReports : ListeningAddress(dest)
    \/ \E upg \in {"set", "nil"}, rc \in {"set", "nil"} : BuilderFunc(upg, rc)

SpecBuild == InitBuild /\ [][NextBuild]_vars

(***************************************************************************)
(* Two transports: this one dials, one call after the other, the address   *)
(* the peer transport listens on; the peer accepts and the two exchange a  *)
(* payload and a response over each connection.                            *)
(***************************************************************************)
PeerDials == {"dialA"}

\* what the client writes on its stream and what the server answers
Payload == <<1, 2>>
Response == <<3>>

\* the peer transport's Listen
PeerListen ==
    /\ ~net.listening
    /\ net' = [net EXCEPT !.listening = TRUE]
    /\ UNCHANGED <<Upgrader, ResourceManager, sessions, dial, lastListen, listenArg, q,
                   build, script, rand, ctors, closes>>

\* the wrapped connection accept() returns: its remote address is derived
\* from the remote Destination the raw connection reports
AcceptedConn(c) ==
    [c EXCEPT !.accepted = TRUE, !.remote = I2PAddrToMultiAddr(c.from).addr]

\* the peer's listener accepts the connections in the order they arrived
PeerAccept(i) ==
    /\ i \in 1..Len(net.conns)
    /\ ~net.conns[i].accepted
    /\ \A j \in 1..(i - 1) : net.conns[j].accepted
    /\ I2PAddrToMultiAddr(net.conns[i].from).err = "nil"
    /\ net' = [net EXCEPT !.conns[i] = AcceptedConn(@)]
    /\ UNCHANGED <<Upgrader, ResourceManager, sessions, dial, lastListen, listenArg, q,
                   build, script, rand, ctors, closes>>

\* the client holds the connection the Dial just returned and writes on it
ClientWrite(i) ==
    /\ i \in 1..Len(net.conns)
    /\ net.conns[i].accepted
    /\ LET r == dial[net.conns[i].slot]
       IN  r.pc = "returned" /\ r.result.conn # "nil" /\ r.rawId = i
    /\ net.conns[i].c2s = <<>> /\ net.conns[i].srvRead = <<>>
    /\ net' = [net EXCEPT !.conns[i].c2s = Payload]
    /\ UNCHANGED <<Upgrader, ResourceManager, sessions, dial, lastListen, listenArg, q,
                   build, script, rand, ctors, closes>>

\* the server reads the next byte of the accepted stream
ServerRead(i) ==
    /\ i \in 1..Len(net.conns)
    /\ net.conns[i].accepted
    /\ net.conns[i].c2s # <<>>
    /\ net' = [net EXCEPT !.conns[i].srvRead = Append(@, Head(net.conns[i].c2s)),
                          !.conns[i].c2s = Tail(@)]
    /\ UNCHANGED <<Upgrader, ResourceManager, sessions, dial, lastListen, listenArg, q,
                   build, script, rand, ctors, closes>>

\* the server has read the payload and writes its response
ServerWrite(i) ==
    /\ i \in 1..Len(net.conns)
    /\ net.conns[i].srvRead = Payload
    /\ net.conns[i].s2c = <<>> /\ net.conns[i].cliRead = <<>>
    /\ net' = [net EXCEPT !.conns[i].s2c = Response]
    /\ UNCHANGED <<Upgrader, ResourceManager, sessions, dial, lastListen, listenArg, q,
                   build, script, rand, ctors, closes>>

\* the client reads the next byte of the response
ClientRead(i) ==
    /\ i \in 1..Len(net.conns)
    /\ net.conns[i].s2c # <<>>
    /\ net' = [net EXCEPT !.conns[i].cliRead = Append(@, Head(net.conns[i].s2c)),
                          !.conns[i].s2c = Tail(@)]
    /\ UNCHANGED <<Upgrader, ResourceManager, sessions, dial, lastListen, listenArg, q,
                   build, script, rand, ctors, closes>>

\* the raw dial connects only to a peer that listens
PeerAnswers(out) ==
    out = "conn" => net.listening /\ Len(net.conns) < MaxConns

NextPeer ==
    \/ PeerListen
    \/ \E d \in PeerDials, addr \in DialAddrs, c \in {"live", "cancelled"} :
           DialCall(d, addr, c)
    \/ \E d \in PeerDials : Cancel(d)
    \/ \E d \in PeerDials, out \in {"conn", "err", "nil"} :
           PeerAnswers(out) /\ RawDialReturn(d, out)
    \/ \E d \in PeerDials : PostDialCheck(d)
    \/ \E d \in PeerDials, la \in LocalAddrReports, w \in {"ok", "err"} :
           ResolveAndWrap(d, la, w)
    \/ \E d \in PeerDials : PreUpgradeCheck(d)
    \/ \E d \in PeerDials, out \in {"ok", "err"} : AcquireScope(d, out)
    \/ \E d \in PeerDials, out \in UpgradeOutcomes : UpgradeReturn(d, out)
    \/ \E i \in 1..MaxConns : PeerAccept(i)
    \/ \E i \in 1..MaxConns : ClientWrite(i)
    \/ \E i \in 1..MaxConns : ServerRead(i)
    \/ \E i \in 1..MaxConns : ServerWrite(i)
    \/ \E i \in 1..MaxConns : ClientRead(i)

SpecPeer == Init /\ [][NextPeer]_vars

(***************************************************************************)
(* The readiness scripts: start_i2p_instances.sh runs check_i2p_ready.sh   *)
(* for node 1 and then for node 2.  Time passes in the sleeps.             *)
(***************************************************************************)
\* MIN_NETDB_SIZE and TIMEOUT as start_i2p_instances passes them (the defaults)
DefaultMinNetDb == 200
DefaultTimeout == 3600
\* sleep 10 in the reseed wait, sleep 30 in the netDb wait
ReseedSleep == 10
NetDbSleep == 30
\* the error count above which check 6 prints its warning
ErrorWarnLimit == 10
\* the README's readiness criteria: uptime 5+ minutes, < 10 critical errors
MinUptimeMinutes == 5
MaxErrors == 10

\* what a command substitution can yield: nothing, or a number
NetDbReadings == {<<>>, <<0>>, <<DefaultMinNetDb - 1>>, <<DefaultMinNetDb>>}
UptimeReadings == {<<>>, <<MinUptimeMinutes - 1>>, <<MinUptimeMinutes>>}
ErrorReadings == {<<>>, <<0>>, <<ErrorWarnLimit>>, <<ErrorWarnLimit + 1>>}

\* [ "$a" -lt "$b" ], [ "$a" -ge "$b" ], [ "$a" -gt "$b" ]: a test on an empty
\* string is an error, which an if takes as false
IntLt(a, b) == a # <<>> /\ a[1] < b
IntGe(a, b) == a # <<>> /\ a[1] >= b
IntGt(a, b) == a # <<>> /\ a[1] > b

ScriptStart ==
    [pc |-> "compose",
     node |-> 0,                \* the node whose check runs
     exits |-> <<>>,            \* the exit codes of the checks that have ended
     allReady |-> FALSE,        \* "All I2P Instances Ready!" was printed
     min |-> 0,                 \* MIN_NETDB_SIZE
     timeout |-> 0,             \* TIMEOUT
     elapsed |-> 0,             \* seconds since START_TIME
     running |-> FALSE,         \* check 1 saw the container running
     samUp |-> FALSE,           \* check 2 got an answer from SAM
     reseed |-> FALSE,          \* RESEED_CHECK is not empty
     netdb |-> <<>>,            \* NETDB_SIZE
     uptime |-> <<>>,           \* UPTIME_CHECK, in minutes
     errors |-> <<>>,           \* ERROR_COUNT
     warned |-> FALSE]          \* check 6 printed its warning

\* bash check_i2p_ready.sh <node> 200 3600: a new process
BeginCheck(s, node) ==
    [ScriptStart EXCEPT !.pc = "container", !.node = node, !.exits = s.exits,
                        !.min = DefaultMinNetDb, !.timeout = DefaultTimeout]

\* exit <code>
Exit(s, code) == [s EXCEPT !.pc = "exited", !.exits = Append(@, code)]

\* check_timeout fails: ELAPSED -gt TIMEOUT
TimedOut(s) == s.elapsed > s.timeout

\* [ "$NETDB_SIZE" -lt "$MIN_NETDB_SIZE" ]
NetDbBelow(s) == IntLt(s.netdb, s.min)

\* the scripts run before any transport is constructed
InitReady ==
    /\ Upgrader = "nil"
    /\ ResourceManager = "nil"
    /\ sessions = [k \in Sessions |-> "none"]
    /\ dial = [d \in Dials |-> IdleDial]
    /\ lastListen = NoListen
    /\ listenArg = <<>>
    /\ q = NoQuery
    /\ build = IdleBuild
    /\ net = NoNet
    /\ script = ScriptStart
    /\ rand = FreshSource
    /\ ctors = [c \in Ctors |-> IdleCtor]
    /\ closes = NoCloses

\* docker-compose up -d i2p-node1 i2p-node2; set -e ends the script if it fails
ComposeUp(ok) ==
    /\ script.pc = "compose"
    /\ script' = IF ok THEN BeginCheck(script, 1) ELSE [script EXCEPT !.pc = "aborted"]
    /\ UNCHANGED transportVarsButScript

\* check 1: container status
CheckContainer(running) ==
    /\ script.pc = "container"
    /\ script' = IF running THEN [script EXCEPT !.pc = "sam", !.running = TRUE]
                 ELSE Exit(script, 1)
    /\ UNCHANGED transportVarsButScript

\* check 2: the SAM port is exposed and SAM answers HELLO
CheckSam(port, up) ==
    /\ script.pc = "sam"
    /\ script' = IF ~port THEN Exit(script, 1)
                 ELSE IF ~up THEN Exit(script, 1)
                 ELSE [script EXCEPT !.pc = "reseed", !.samUp = TRUE]
    /\ UNCHANGED transportVarsButScript

\* check 3: "reseed successful" in the log
CheckReseed(found) ==
    /\ script.pc = "reseed"
    /\ script' = IF found THEN [script EXCEPT !.pc = "netdb", !.reseed = TRUE]
                 ELSE [script EXCEPT !.pc = "reseedwait"]
    /\ UNCHANGED transportVarsButScript

\* one turn of the reseed wait: check_timeout, sleep, look again
ReseedWait(found) ==
    /\ script.pc = "reseedwait"
    /\ script' = IF TimedOut(script) THEN Exit(script, 1)
                 ELSE IF found
                 THEN [script EXCEPT !.pc = "netdb", !.reseed = TRUE,
                                     !.elapsed = @ + ReseedSleep]
                 ELSE [script EXCEPT !.elapsed = @ + ReseedSleep]
    /\ UNCHANGED transportVarsButScript

\* check 4: the first count of the netDb
CheckNetDb(reading) ==
    /\ script.pc = "netdb"
    /\ reading \in NetDbReadings
    /\ LET s == [script EXCEPT !.netdb = reading]
       IN  script' = IF NetDbBelow(s) THEN [s EXCEPT !.pc = "netdbwait"]
                     ELSE [s EXCEPT !.pc = "uptime"]
    /\ UNCHANGED transportVarsButScript

\* one turn of the netDb wait, and the test that follows the loop
NetDbWait(reading) ==
    /\ script.pc = "netdbwait"
    /\ reading \in NetDbReadings
    /\ LET s == [script EXCEPT !.netdb = reading, !.elapsed = @ + NetDbSleep]
       IN  script' = IF TimedOut(script)
                     THEN IF NetDbBelow(script) THEN Exit(script, 1)
                          ELSE [script EXCEPT !.pc = "uptime"]
                     ELSE IF IntGe(s.netdb, s.min)
                     THEN IF NetDbBelow(s) THEN Exit(s, 1) ELSE [s EXCEPT !.pc = "uptime"]
                     ELSE s
    /\ UNCHANGED transportVarsButScript

\* check 5: the uptime is printed
CheckUptime(reading) ==
    /\ script.pc = "uptime"
    /\ reading \in UptimeReadings
    /\ script' = [script EXCEPT !.pc = "errors", !.uptime = reading]
    /\ UNCHANGED transportVarsButScript

\* check 6: the errors are counted, a warning is printed; then exit 0
CheckErrors(reading) ==
    /\ script.pc = "errors"
    /\ reading \in ErrorReadings
    /\ script' = Exit([script EXCEPT !.errors = reading,
                                     !.warned = IntGt(reading, ErrorWarnLimit)], 0)
    /\ UNCHANGED transportVarsButScript

\* start_i2p_instances after a check: set -e ends it on a failed check;
\* otherwise the next node's check, or the report that all are ready
AfterCheck ==
    /\ script.pc = "exited"
    /\ script' = IF script.exits[Len(script.exits)] # 0
                 THEN [script EXCEPT !.pc = "aborted"]
                 ELSE IF script.node = 1 THEN BeginCheck(script, 2)
                 ELSE [script EXCEPT !.pc = "allready", !.allReady = TRUE]
    /\ UNCHANGED transportVarsButScript

NextReady ==
    \/ \E ok \in BOOLEAN : ComposeUp(ok)
    \/ \E running \in BOOLEAN : CheckContainer(running)
    \/ \E port \in BOOLEAN, up \in BOOLEAN : CheckSam(port, up)
    \/ \E found \in BOOLEAN : CheckReseed(found)
    \/ \E found \in BOOLEAN : ReseedWait(found)
    \/ \E reading \in NetDbReadings : CheckNetDb(reading)
    \/ \E reading \in NetDbReadings : NetDbWait(reading)
    \/ \E reading \in UptimeReadings : CheckUptime(reading)
    \/ \E reading \in ErrorReadings : CheckErrors(reading)
    \/ AfterCheck

SpecReady == InitReady /\ [][NextReady]_vars

(***************************************************************************)
(* Two runs of Dial side by side, fed the same call, the same cancellation *)
(* and the same answers of the collaborators: dialA on a transport with no *)
(* resource manager, dialB on one whose resource manager always admits.    *)
(***************************************************************************)
NoManagerRun == "dialA"
AdmittingRun == "dialB"

Lockstep(a, b) ==
    /\ dial' = [dial EXCEPT ![NoManagerRun] = a, ![AdmittingRun] = b]
    /\ UNCHANGED Others

PairAt(pcs) == dial[NoManagerRun].pc \in pcs /\ dial[AdmittingRun].pc \in pcs

PairDialCall(addr, c) ==
    /\ PairAt({"idle", "returned"})
    /\ Lockstep(BeforeRawDial(addr, c, sessions["primary"] = "closed"),
                BeforeRawDial(addr, c, sessions["primary"] = "closed"))

PairCancel ==
    /\ ~PairAt({"idle", "returned"})
    /\ dial[NoManagerRun].ctx = "live"
    /\ Lockstep(Cancelled(dial[NoManagerRun]), Cancelled(dial[AdmittingRun]))

PairRawDialReturn(out) ==
    /\ PairAt({"rawdial"})
    /\ out \in RawDialOutcomes
    /\ Lockstep(RawDialAnswer(dial[NoManagerRun], out, 0),
                RawDialAnswer(dial[AdmittingRun], out, 0))

PairPostDialCheck ==
    /\ PairAt({"postdial"})
    /\ Lockstep(AfterRawDial(dial[NoManagerRun]), AfterRawDial(dial[AdmittingRun]))

PairResolveAndWrap(la, w) ==
    /\ PairAt({"resolve"})
    /\ Lockstep(Wrap(dial[NoManagerRun], la, w), Wrap(dial[AdmittingRun], la, w))

PairPreUpgradeCheck ==
    /\ PairAt({"preupgrade"})
    /\ Lockstep(BeforeUpgrade(dial[NoManagerRun], Upgrader),
                BeforeUpgrade(dial[AdmittingRun], Upgrader))

\* the one step at which the two transports differ
PairAcquireScope ==
    /\ PairAt({"scope"})
    /\ Lockstep(OpenScope(dial[NoManagerRun], "nil", "ok"),
                OpenScope(dial[AdmittingRun], "set", "ok"))

PairUpgradeReturn(out) ==
    /\ PairAt({"upgrade"})
    /\ Lockstep(AfterUpgrade(dial[NoManagerRun], out),
                AfterUpgrade(dial[AdmittingRun], out))

NextPair ==
    \/ \E addr \in DialAddrs, c \in {"live", "cancelled"} : PairDialCall(addr, c)
    \/ PairCancel
    \/ \E out \in {"conn", "err", "nil"} : PairRawDialReturn(out)
    \/ PairPostDialCheck
    \/ \E la \in LocalAddrReports, w \in {"ok", "err"} : PairResolveAndWrap(la, w)
    \/ PairPreUpgradeCheck
    \/ PairAcquireScope
    \/ \E out \in UpgradeOutcomes : PairUpgradeReturn(out)

SpecPair == Init /\ [][NextPair]_vars

(***************************************************************************)
(* Dials and the closing of the connections they return, on a transport    *)
(* with a resource manager.  A caller closes the connection a Dial gave it *)
(* before it dials again, so that no connection drops out of the state.    *)
(***************************************************************************)
InitConn == Init /\ ResourceManager = "set"

InFlight(d) == dial[d].pc \notin {"idle", "returned"}

HoldsConn(d) ==
    /\ dial[d].pc = "returned"
    /\ dial[d].result.conn # "nil"
    /\ dial[d].connCloses = 0

\* Close() of the upgraded connection: the raw connection is closed and the
\* connection's scope is released
CapableConnClose(r) ==
    [r EXCEPT !.connCloses = @ + 1,
              !.rawConn = "closed",
              !.scope = IF @ = "open" THEN "done" ELSE @]

\* err = conn.Close() on a connection a Dial returned
ConnClose(d) ==
    /\ HoldsConn(d)
    /\ dial' = [dial EXCEPT ![d] = CapableConnClose(dial[d])]
    /\ UNCHANGED Others

NextConn ==
    \/ \E d \in Dials, addr \in DialAddrs, c \in {"live", "cancelled"} :
           ~HoldsConn(d) /\ DialCall(d, addr, c)
    \/ \E d \in Dials : Cancel(d)
    \/ \E d \in Dials, out \in {"conn", "err", "nil"} : RawDialReturn(d, out)
    \/ \E d \in Dials : PostDialCheck(d)
    \/ \E d \in Dials, la \in LocalAddrReports, w \in {"ok", "err"} : ResolveAndWrap(d, la, w)
    \/ \E d \in Dials : PreUpgradeCheck(d)
    \/ \E d \in Dials, out \in {"ok", "err"} : AcquireScope(d, out)
    \/ \E d \in Dials, out \in UpgradeOutcomes : UpgradeReturn(d, out)
    \/ \E d \in Dials : ConnClose(d)

SpecConn == InitConn /\ [][NextConn]_vars

(***************************************************************************)
(* Two calls of I2PTransportBuilder side by side, each at its own pace:    *)
(* rand.Seed and rand.Int act on the one source of the process.            *)
(***************************************************************************)
\* I2PTransportBuilder(sam, i2pKeys, outboundPort, rngSeed) is called
CtorCall(c, seed) ==
    /\ ctors[c].pc = "idle"
    /\ ctors' = [ctors EXCEPT ![c] = [IdleCtor EXCEPT !.pc = "seed", !.seed = seed]]
    /\ UNCHANGED <<Upgrader, ResourceManager, sessions, dial, lastListen, listenArg, q,
                   build, net, script, rand, closes>>

\* rand.Seed(int64(rngSeed))
CtorSeed(c) ==
    /\ ctors[c].pc = "seed"
    /\ rand' = Seeded(ctors[c].seed)
    /\ ctors' = [ctors EXCEPT ![c].pc = "draw"]
    /\ UNCHANGED <<Upgrader, ResourceManager, sessions, dial, lastListen, listenArg, q,
                   build, net, script, closes>>

\* randSessionSuffix := strconv.Itoa(rand.Int())
CtorDraw(c) ==
    /\ ctors[c].pc = "draw"
    /\ rand' = RandInt(rand).source
    /\ ctors' = [ctors EXCEPT ![c].pc = "names", ![c].suffix = RandInt(rand).value]
    /\ UNCHANGED <<Upgrader, ResourceManager, sessions, dial, lastListen, listenArg, q,
                   build, net, script, closes>>

\* the next session is requested under its prefix and the suffix
CtorRequest(c) ==
    /\ ctors[c].pc = "names"
    /\ LET names == Append(ctors[c].names,
                           <<CreationOrder[Len(ctors[c].names) + 1], ctors[c].suffix>>)
       IN  ctors' = [ctors EXCEPT
                       ![c].names = names,
                       ![c].pc = IF Len(names) = Len(CreationOrder)
                                 THEN "done" ELSE "names"]
    /\ UNCHANGED <<Upgrader, ResourceManager, sessions, dial, lastListen, listenArg, q,
                   build, net, script, rand, closes>>

NextSeed ==
    \/ \E c \in Ctors, seed \in Seeds : CtorCall(c, seed)
    \/ \E c \in Ctors : CtorSeed(c)
    \/ \E c \in Ctors : CtorDraw(c)
    \/ \E c \in Ctors : CtorRequest(c)

SpecSeed == InitBuild /\ [][NextSeed]_vars

(***************************************************************************)
(* A transport that is closed again and again, between the Dial and Listen *)
(* calls of one caller.                                                    *)
(***************************************************************************)
NextClose ==
    \/ closes.calls < MaxCloses /\ Close
    \/ \E d \in PeerDials, addr \in DialAddrs, c \in {"live", "cancelled"} :
           DialCall(d, addr, c)
    \/ \E d \in PeerDials : Cancel(d)
    \/ \E d \in PeerDials, out \in {"conn", "err", "nil"} : RawDialReturn(d, out)
    \/ \E d \in PeerDials : PostDialCheck(d)
    \/ \E d \in PeerDials, la \in LocalAddrReports, w \in {"ok", "err"} :
           ResolveAndWrap(d, la, w)
    \/ \E d \in PeerDials : PreUpgradeCheck(d)
    \/ \E d \in PeerDials, out \in {"ok", "err"} : AcquireScope(d, out)
    \/ \E d \in PeerDials, out \in UpgradeOutcomes : UpgradeReturn(d, out)
    \/ \E arg \in ListenArgs, lo \in {"ok", "err"}, wo \in {"ok", "err"} : Listen(arg, lo, wo)

SpecClose == Init /\ [][NextClose]_vars

(***************************************************************************)
(* Properties.                                                             *)
(***************************************************************************)
\* an address that consists of one overlay-destination component
IsOverlayAddr(a) == Len(a) = 1 /\ a[1].tag \in OverlayTags

Returned(d) == dial[d].pc = "returned"
Failed(d) == Returned(d) /\ dial[d].result.err # "nil"
GotRawConn(d) == dial[d].rawConn \in {"open", "closed"}

\* C1: whenever the raw dial returned a connection and Dial returns an error,
\* the facade has closed that raw connection exactly once.
C1_RawConnClosedOnceOnError ==
    \A d \in Dials : (Failed(d) /\ GotRawConn(d)) => dial[d].rawCloses = 1

\* C2: once OpenConnection has succeeded, the facade calls Done on the scope
\* exactly once if Dial returns an error and never if Dial returns success;
\* no Done is called while the Dial is still in progress.
C2_ScopeDoneOnceIffError ==
    \A d \in Dials :
        dial[d].scope # "none" =>
            /\ ~Returned(d) => dial[d].scopeDones = 0
            /\ Failed(d) => dial[d].scopeDones = 1 /\ dial[d].scope = "done"
            /\ (Returned(d) /\ ~Failed(d)) =>
                   dial[d].scopeDones = 0 /\ dial[d].scope = "open"

C2_Witness ==
    \E d \in Dials : Failed(d) /\ dial[d].nOpen = 1 /\ dial[d].scopeDones = 1

\* C3 as stated: a cancellation at any point between the successful raw dial
\* and the call of the upgrade makes Dial close the raw connection and return
\* the cancellation error and no connection.
C3_LateCancelAlwaysReported ==
    \A d \in Dials :
        ( /\ Returned(d)
          /\ GotRawConn(d)
          /\ dial[d].cancelAt \in {"postdial", "resolve", "preupgrade", "scope"} )
        => /\ dial[d].result = [conn |-> "nil", err |-> "DialCancelled"]
           /\ dial[d].rawCloses = 1

\* C3 as amended: if the context is cancelled after the raw dial returned a
\* connection and before Dial's last cancellation check (the one before scope
\* acquisition), Dial closes the raw connection exactly once, opens no scope,
\* invokes no upgrade and returns an error and no connection: the
\* cancellation error, unless local address resolution, the adapter wrap or
\* the upgrader check failed first.
C3_CancelBeforeLastCheck ==
    \A d \in Dials :
        ( /\ Returned(d)
          /\ GotRawConn(d)
          /\ dial[d].cancelAt \in {"postdial", "resolve", "preupgrade"} )
        => /\ dial[d].result.conn = "nil"
           /\ dial[d].result.err \in {"DialCancelled", "LocalAddrFailed",
                                      "AdapterConstructionFailed", "UpgraderNil"}
           /\ dial[d].result.err = "UpgraderNil" => Upgrader = "nil"
           /\ dial[d].rawConn = "closed"
           /\ dial[d].rawCloses = 1
           /\ dial[d].nOpen = 0
           /\ dial[d].nUpgrade = 0

C3_Witness ==
    \E d \in Dials :
        /\ Returned(d)
        /\ dial[d].cancelAt = "resolve"
        /\ dial[d].result.err = "DialCancelled"
        /\ dial[d].rawCloses = 1

\* C4: every return of Dial yields exactly one of a connection and an error.
C4_ConnXorError ==
    \A d \in Dials :
        Returned(d) =>
            /\ dial[d].result.err # "nil" => dial[d].result.conn = "nil"
            /\ dial[d].result.err = "nil" => dial[d].result.conn = "upgraded"

C4_Witness ==
    \E d \in Dials : Returned(d) /\ dial[d].result.err = "UpgradeNilConn"

\* C5: a Dial called with a cancelled context and an overlay address returns
\* the cancellation error without calling the raw dial, the resource manager
\* or the upgrader.
C5_CancelledBeforeDial ==
    \A d \in Dials :
        ( /\ dial[d].pc # "idle"
          /\ dial[d].ctxAtCall = "cancelled"
          /\ IsOverlayAddr(dial[d].addr) )
        => /\ Returned(d)
           /\ dial[d].result = [conn |-> "nil", err |-> "DialCancelled"]
           /\ dial[d].nDial = 0
           /\ dial[d].nOpen = 0
           /\ dial[d].nUpgrade = 0

C5_Witness ==
    \E d \in Dials :
        Returned(d) /\ dial[d].ctxAtCall = "cancelled" /\ dial[d].addr = PeerAddr

\* C6: a Dial on an address that is not an overlay address returns an error
\* at once: no translation, no raw dial, no scope, no upgrade, and the step
\* leaves the sessions as they are.
C6_NotDialableState ==
    \A d \in Dials :
        (dial[d].pc # "idle" /\ ~IsOverlayAddr(dial[d].addr))
        => /\ Returned(d)
           /\ dial[d].result = [conn |-> "nil", err |-> "NotDialable"]
           /\ dial[d].nTranslate = 0
           /\ dial[d].nDial = 0
           /\ dial[d].nOpen = 0
           /\ dial[d].nUpgrade = 0
           /\ dial[d].rawConn = "none"
           /\ dial[d].scope = "none"

C6_NotDialableFailsAtOnce ==
    /\ []C6_NotDialableState
    /\ [][\A d \in Dials :
             (dial'[d] # dial[d] /\ ~IsOverlayAddr(dial'[d].addr))
             => sessions' = sessions]_vars

C6_Witness ==
    \E d \in Dials : Returned(d) /\ dial[d].addr = TcpAddr

\* C7: CanDial(addr) is true exactly for an address made of one garlic64 or
\* garlic32 component, false for every other address (a TCP/IP address among
\* them), and the query leaves the transport's state as it was.
C7_CanDialIffOverlay ==
    q.kind = "CanDial" =>
        /\ q.out = IsOverlayAddr(q.addr)
        /\ sessions = [k \in Sessions |-> "open"]
        /\ dial = [d \in Dials |-> IdleDial]
        /\ lastListen = NoListen

C7_Witness ==
    q.kind = "CanDial" /\ q.addr = TcpAddr /\ q.out = FALSE

\* C8: every tag in the list Protocols() returns is dialable, and every
\* dialable tag is in the list.
C8_ProtocolsAreDialable ==
    q.kind = "Protocols" =>
        /\ \A i \in 1..Len(q.out) : CanDial(<<[tag |-> q.out[i], val |-> <<1>>]>>)
        /\ \A t \in Tags :
               CanDial(<<[tag |-> t, val |-> <<1>>]>>)
               => \E i \in 1..Len(q.out) : q.out[i] = t

\* C9: a valid full-form destination string turned into a multiaddr and back
\* is the same string.
C9_RoundTrip ==
    (q.kind = "Translate" /\ ValidDestination(q.dest)) =>
        /\ q.fwd.err = "nil"
        /\ q.back.err = "nil"
        /\ q.back.dest = q.dest

C9_Witness ==
    q.kind = "Translate" /\ q.dest = PeerDest /\ q.back.dest = PeerDest

\* C10: Listen does the same whatever its argument: a Listen step taken with
\* one argument is, up to the record of the argument, the step every other
\* argument takes, and the raw listener is always requested from the inbound
\* session.
C10_ListenIgnoresArgument ==
    /\ [](lastListen.session \in {"none", "inbound"})
    /\ [][\A lo \in {"ok", "err"}, wo \in {"ok", "err"} :
             (\E a \in ListenArgs : ListenEffect(a, lo, wo))
             => (\A a \in ListenArgs : ListenEffect(a, lo, wo))]_vars

C10_Witness ==
    /\ listenArg = TcpAddr
    /\ lastListen.session = "inbound"
    /\ lastListen.outcome = "listener"

\* the creation requests for the named sub-session among the provider's calls
SubCalls(prefix) ==
    {i \in 1..Len(build.calls) : build.calls[i].name[1] = prefix}

\* C11: whatever the outbound-port hint and the name seed, the inbound and the
\* outbound sub-session are requested with different protocol+port pairs, and
\* the outbound one is requested on the reserved port, not on the hint.
C11_PortsNeverCollide ==
    /\ \A i \in SubCalls("inboundSession"), j \in SubCalls("outboundSession") :
           <<build.calls[i].binding.proto, build.calls[i].binding.from>>
               # <<build.calls[j].binding.proto, build.calls[j].binding.from>>
    /\ \A j \in SubCalls("outboundSession") :
           /\ build.calls[j].binding.from = OutboundFromPort
           /\ build.calls[j].binding.to = OutboundToPort
    /\ \A i \in SubCalls("inboundSession") :
           build.calls[i].binding.from = DefaultPort

C11_Witness ==
    /\ build.pc = "built"
    /\ build.hint = DefaultPort
    /\ build.seed = MaxSeed
    /\ SubCalls("inboundSession") # {}
    /\ SubCalls("outboundSession") # {}

SubSessions == {"inbound", "outbound"}
AllClosed == \A k \in Sessions : sessions[k] = "closed"
CloseCalled == sessions["primary"] = "closed"
ListenStep == \E a \in ListenArgs, lo \in {"ok", "err"}, wo \in {"ok", "err"} : Listen(a, lo, wo)
AcceptStep == \E out \in {"conn", "err"} : Accept(out)

\* C12: a step of Close leaves the primary, the inbound and the outbound session
\* torn down; a sub-session is torn down only together with its primary, and a
\* step that changes a session's state is never a step of Dial or Listen.
C12_OnlyCloseTearsDown ==
    /\ [](\A k \in SubSessions : sessions[k] = "closed" => sessions["primary"] = "closed")
    /\ [][/\ Close => \A k \in Sessions : sessions'[k] = "closed"
          /\ sessions' # sessions =>
                /\ sessions'["primary"] = "closed"
                /\ dial' = dial
                /\ lastListen' = lastListen]_vars

C12_Witness ==
    /\ AllClosed
    /\ \E d \in Dials : Failed(d) /\ GotRawConn(d) /\ ~dial[d].closedAtCall
    /\ lastListen.outcome = "ListenFailed"

CreationsOf(kind) == {i \in 1..Len(build.calls) : build.calls[i].kind = kind}

\* C14: the provider has received exactly one primary-session creation and
\* exactly two sub-session creations, whatever Dial, Listen and Accept calls
\* were made, and no step of Dial, Listen or Accept changes a session or the
\* creations the provider received.
C14_SessionsCreatedOnce ==
    /\ [](/\ Cardinality(CreationsOf("primary")) = 1
          /\ Cardinality(CreationsOf("sub")) = 2)
    /\ [][dial' # dial \/ lastListen' # lastListen \/ listenArg' # listenArg =>
             sessions' = sessions /\ build' = build]_vars

C14_Witness ==
    /\ build.pc = "built"
    /\ \E d \in Dials : Failed(d) /\ dial[d].result.err = "DialFailed"
    /\ \E d \in Dials : Failed(d) /\ dial[d].result.err = "DialCancelled"
    /\ lastListen.accept = "conn"

\* C17: a Dial whose raw dial is in progress leaves it only when the raw dial
\* returns, cancelled or not; a Dial cancelled during its raw dial then reports
\* the cancellation, and a connection the raw dial produced has been closed.
C17_CancelWaitsForRawDial ==
    /\ [](\A d \in Dials : Returned(d) /\ dial[d].cancelAt = "rawdial" =>
             /\ dial[d].result = [conn |-> "nil", err |-> "DialCancelled"]
             /\ GotRawConn(d) => dial[d].rawConn = "closed" /\ dial[d].rawCloses = 1
             /\ dial[d].nOpen = 0
             /\ dial[d].nUpgrade = 0)
    /\ [][\A d \in Dials : dial[d].pc = "rawdial" /\ dial'[d].pc # "rawdial" =>
             /\ dial'[d].pc = "postdial"
             /\ dial'[d].ctx = dial[d].ctx]_vars

C17_Witness ==
    \E d \in Dials : /\ Returned(d)
                     /\ dial[d].cancelAt = "rawdial"
                     /\ dial[d].rawConn = "closed"
                     /\ dial[d].rawCloses = 1
                     /\ dial[d].result.err = "DialCancelled"

\* C20: the raw dial is invoked only on the outbound sub-session and the raw
\* listen only on the inbound sub-session; neither is invoked on the primary.
C20_SessionUseByKind ==
    /\ \A d \in Dials : /\ dial[d].nDial > 0 => dial[d].dialSession = "outbound"
                        /\ dial[d].dialSession \in {"none", "outbound"}
    /\ lastListen.session \in {"none", "inbound"}
    /\ lastListen.outcome # "none" => lastListen.session = "inbound"

C20_Witness ==
    /\ \E d \in Dials : dial[d].nDial = 1 /\ dial[d].dialSession = "outbound"
    /\ lastListen.session = "inbound"
    /\ lastListen.rawOpen

Dialed(d) == Returned(d) /\ dial[d].result.conn # "nil"
Conns == 1..Len(net.conns)

IsPrefix(a, b) == Len(a) <= Len(b) /\ \A k \in 1..Len(a) : a[k] = b[k]

ReportedReady == script.pc = "exited" /\ script.exits[Len(script.exits)] = 0

\* C18: check_i2p_ready ends with exit code 0 only after it saw the container
\* running, SAM answering, a successful reseed and a netDb count that reached
\* the minimum, and with exit code 1 otherwise; start_i2p_instances reports all
\* instances ready only after the checks of node 1 and node 2 both ended with 0.
C18_ReadyOnlyIfChecksPassed ==
    /\ script.pc = "exited" => script.exits[Len(script.exits)] \in {0, 1}
    /\ ReportedReady =>
           /\ script.running
           /\ script.samUp
           /\ script.reseed
           /\ script.netdb # <<>>
           /\ script.netdb[1] >= script.min
    /\ script.pc # "idle" /\ script.allReady =>
           script.exits = <<0, 0>> /\ script.node = 2

\* C19: check_i2p_ready ends with exit code 0 only if the uptime it read is at
\* least 5 minutes and the errors it counted are fewer than 10 (the fifth and
\* sixth readiness criteria of the README).
C19_ReadyOnlyIfAllCriteria ==
    ReportedReady =>
        /\ script.uptime # <<>>
        /\ script.uptime[1] >= MinUptimeMinutes
        /\ script.errors # <<>>
        /\ script.errors[1] < MaxErrors

(***************************************************************************)
(* Construction: order of the session creations and what a failure leaves. *)
(***************************************************************************)
\* C21: the provider receives the session creations in the order primary,
\* inbound, outbound, and the listening address is computed only after all
\* three; when the primary creation fails the construction has failed at once:
\* no sub-session creation was requested, no session exists, and neither an
\* address nor a builder is returned.
C21_PrimaryFirstAndFailFast ==
    /\ Len(build.calls) <= Len(CreationOrder)
    /\ \A i \in 1..Len(build.calls) : build.calls[i].name[1] = CreationOrder[i]
    /\ build.pc \in {"addr", "done", "built"} \/ build.addr # <<>>
           => /\ Len(build.calls) = Len(CreationOrder)
              /\ build.err = "nil"
    /\ build.err = "PrimarySessionFailed"
           => /\ build.pc = "failed"
              /\ Len(build.calls) = 1
              /\ build.calls[1].kind = "primary"
              /\ build.addr = <<>>
              /\ \A k \in Sessions : sessions[k] = "none"
    /\ build.pc = "failed" => build.err # "nil" /\ build.addr = <<>>

C21_Witness ==
    /\ build.err = "PrimarySessionFailed"
    /\ build.pc = "failed"
    /\ build.seed = MaxSeed

\* C22: when the creation of the inbound or of the outbound sub-session fails,
\* every session created before it is still open (nothing is closed), the
\* failed one does not exist, and no creation was requested a second time.
C22_FailedSubSessionLeavesOthersOpen ==
    /\ \A p \in {"primarySession", "inboundSession", "outboundSession"} :
           Cardinality(SubCalls(p)) <= 1
    /\ build.err = "InboundSessionFailed"
           => /\ sessions = [k \in Sessions |-> IF k = "primary" THEN "open" ELSE "none"]
              /\ Len(build.calls) = 2
              /\ build.pc = "failed"
    /\ build.err = "OutboundSessionFailed"
           => /\ sessions = [k \in Sessions |-> IF k = "outbound" THEN "none" ELSE "open"]
              /\ Len(build.calls) = 3
              /\ build.pc = "failed"
    /\ \A k \in Sessions : sessions[k] # "closed"

C22_Witness ==
    /\ build.err = "OutboundSessionFailed"
    /\ sessions["primary"] = "open"
    /\ sessions["inbound"] = "open"
    /\ build.hint = MaxPort

(***************************************************************************)
(* Dial: error classification, retries, scope failure, order of the steps. *)
(***************************************************************************)
\* C23: a Dial whose raw dial returned an error reports DialCancelled if its
\* context is cancelled and DialFailed otherwise, and has opened no scope,
\* invoked no upgrade and closed nothing; a Dial whose upgrade returned an
\* error reports UpgradeCancelled if its context is cancelled and UpgradeFailed
\* otherwise.
C23_CancellationHasPriority ==
    \A d \in Dials :
        Returned(d) =>
            /\ dial[d].err = "DialErr" =>
                   /\ dial[d].result =
                          [conn |-> "nil",
                           err |-> IF dial[d].ctx = "cancelled"
                                   THEN "DialCancelled" ELSE "DialFailed"]
                   /\ dial[d].nOpen = 0
                   /\ dial[d].nUpgrade = 0
                   /\ dial[d].scope = "none"
                   /\ dial[d].rawCloses = 0
                   /\ dial[d].scopeDones = 0
            /\ dial[d].err = "UpgradeErr" =>
                   dial[d].result =
                       [conn |-> "nil",
                        err |-> IF dial[d].ctx = "cancelled"
                                THEN "UpgradeCancelled" ELSE "UpgradeFailed"]

C23_Witness ==
    /\ \E d \in Dials :
           /\ Returned(d)
           /\ dial[d].err = "DialErr"
           /\ dial[d].cancelAt = "rawdial"
           /\ dial[d].result.err = "DialCancelled"
    /\ \E d \in Dials :
           /\ Returned(d)
           /\ dial[d].err = "UpgradeErr"
           /\ dial[d].ctx = "live"
           /\ dial[d].result.err = "UpgradeFailed"

\* C24: within one Dial the raw dial, OpenConnection and Upgrade are each
\* invoked at most once, and within one Listen the raw listen is invoked at
\* most once, whatever failed.
C24_NoRetries ==
    /\ \A d \in Dials :
           /\ dial[d].nDial <= 1
           /\ dial[d].nOpen <= 1
           /\ dial[d].nUpgrade <= 1
    /\ lastListen.nListen <= 1

C24_Witness ==
    /\ \E d \in Dials :
           /\ Failed(d)
           /\ dial[d].result.err = "UpgradeFailed"
           /\ dial[d].nDial = 1
           /\ dial[d].nOpen = 1
           /\ dial[d].nUpgrade = 1
    /\ \E d \in Dials :
           /\ dial[d].result.err = "DialFailed"
           /\ dial[d].nDial = 1
    /\ lastListen.outcome = "ListenFailed"
    /\ lastListen.nListen = 1

\* C25: when OpenConnection fails, Dial has returned the manager's error with
\* no connection, has closed the wrapped connection once, has not invoked the
\* upgrade pipeline and has called Done on no scope.
C25_ScopeFailureClosesAndReturns ==
    \A d \in Dials :
        dial[d].err = "ScopeErr" =>
            /\ ResourceManager = "set"
            /\ Returned(d)
            /\ dial[d].result = [conn |-> "nil", err |-> "ResourceLimitExceeded"]
            /\ dial[d].rawConn = "closed"
            /\ dial[d].rawCloses = 1
            /\ dial[d].nOpen = 1
            /\ dial[d].nUpgrade = 0
            /\ dial[d].scope = "none"
            /\ dial[d].scopeDones = 0

C25_Witness ==
    \E d \in Dials :
        /\ dial[d].err = "ScopeErr"
        /\ dial[d].result.err = "ResourceLimitExceeded"
        /\ dial[d].rawCloses = 1
        /\ dial[d].addrs.remote = PeerAddr

\* C26: the steps of a Dial happen in the order dialability check, translation,
\* cancellation pre-check, raw dial, local-address resolution and wrap, scope
\* acquisition, upgrade: each step has happened only if the ones before it
\* have; a scope is opened only after the raw dial gave a connection and it
\* was wrapped, and with a resource manager the upgrade is invoked only after
\* the scope was acquired.
C26_StepOrder ==
    \A d \in Dials :
        /\ dial[d].nTranslate > 0 => IsOverlayAddr(dial[d].addr)
        /\ dial[d].nDial > 0 =>
               /\ dial[d].nTranslate = 1
               /\ dial[d].dest # <<>>
               /\ dial[d].ctxAtCall = "live"
        /\ dial[d].rawConn # "none" => dial[d].nDial = 1
        /\ dial[d].addrs # NoAddrs => GotRawConn(d)
        /\ dial[d].nOpen > 0 => GotRawConn(d) /\ dial[d].addrs # NoAddrs
        /\ dial[d].scope # "none" => dial[d].nOpen = 1
        /\ dial[d].nUpgrade > 0 =>
               /\ dial[d].addrs # NoAddrs
               /\ Upgrader = "set"
               /\ ResourceManager = "set" =>
                      dial[d].nOpen = 1 /\ dial[d].scope # "none"

C26_Witness ==
    \E d \in Dials :
        /\ ResourceManager = "set"
        /\ Returned(d)
        /\ dial[d].result.conn = "upgraded"
        /\ dial[d].nTranslate = 1
        /\ dial[d].nDial = 1
        /\ dial[d].nOpen = 1
        /\ dial[d].nUpgrade = 1
        /\ dial[d].addrs # NoAddrs

\* C27: fed the same call, cancellation and collaborator answers, the Dial
\* without a resource manager never calls OpenConnection or Done and hands the
\* upgrade an empty scope, and at every point it stands where the Dial with an
\* always-admitting resource manager stands, with the same result and the same
\* connection closed as often.
C27_NoManagerEquivalent ==
    LET a == dial[NoManagerRun]
        b == dial[AdmittingRun]
    IN  /\ a.nOpen = 0
        /\ a.scopeDones = 0
        /\ a.scope = "none"
        /\ a.pc = b.pc
        /\ a.result = b.result
        /\ a.rawConn = b.rawConn
        /\ a.rawCloses = b.rawCloses
        /\ a.nUpgrade = b.nUpgrade

C27_Witness ==
    /\ dial[NoManagerRun].pc = "returned"
    /\ dial[NoManagerRun].result.err = "UpgradeFailed"
    /\ dial[NoManagerRun].nUpgrade = 1
    /\ dial[NoManagerRun].scopeDones = 0
    /\ dial[AdmittingRun].result.err = "UpgradeFailed"
    /\ dial[AdmittingRun].nOpen = 1
    /\ dial[AdmittingRun].scopeDones = 1

\* the scopes the resource manager has handed out and not seen released
OpenScopes == {d \in Dials : dial[d].scope = "open"}

\* C28: every open scope is held by a Dial in flight or by a connection that a
\* Dial returned and that is not yet closed, never by both; closing a returned
\* connection releases its scope; so with no Dial in flight and every returned
\* connection closed, no scope is open.
C28_ScopeAccounting ==
    /\ \A d \in OpenScopes :
           /\ InFlight(d) \/ HoldsConn(d)
           /\ dial[d].nOpen = 1
           /\ dial[d].scopeDones = 0
    /\ \A d \in Dials :
           dial[d].connCloses > 0 =>
               /\ dial[d].connCloses = 1
               /\ dial[d].result = [conn |-> "upgraded", err |-> "nil"]
               /\ dial[d].scope = "done"
               /\ dial[d].scopeDones = 0
    /\ (\A d \in Dials : ~InFlight(d) /\ ~HoldsConn(d)) => OpenScopes = {}

C28_Witness ==
    /\ \A d \in Dials :
           /\ dial[d].connCloses = 1
           /\ dial[d].nOpen = 1
           /\ dial[d].scope = "done"
    /\ OpenScopes = {}

(***************************************************************************)
(* Session names of constructions that run side by side.                   *)
(***************************************************************************)
NamesOf(c) == {ctors[c].names[i] : i \in 1..Len(ctors[c].names)}

\* C29: the suffix a construction uses is the one its own seed determines; its
\* names share that suffix and are pairwise distinct; and two constructions
\* with the same seed request the same names, also when they run side by side.
C29_SuffixFromOwnSeed ==
    /\ \A c \in Ctors :
           ctors[c].pc \in {"names", "done"} =>
               /\ ctors[c].suffix = RandSessionSuffix(ctors[c].seed)
               /\ \A i \in 1..Len(ctors[c].names) :
                      ctors[c].names[i][2] = ctors[c].suffix
               /\ Cardinality(NamesOf(c)) = Len(ctors[c].names)
    /\ \A c1, c2 \in Ctors :
           (/\ ctors[c1].pc = "done"
            /\ ctors[c2].pc = "done"
            /\ ctors[c1].seed = ctors[c2].seed) => ctors[c1].names = ctors[c2].names

(***************************************************************************)
(* The dialability check against the translation Dial uses.                *)
(***************************************************************************)
\* C30: for every address that CanDial accepts, the translation to a
\* destination does not fail with UnsupportedAddressFamily; and every address
\* whose tag is not one of the two overlay tags is rejected by the translation.
C30_DialableImpliesTranslatable ==
    q.kind = "DialTranslate" =>
        /\ q.canDial => q.out.err # "UnsupportedAddressFamily"
        /\ (Len(q.addr) > 0 /\ q.addr[1].tag \notin OverlayTags) =>
               /\ q.out.err = "UnsupportedAddressFamily"
               /\ q.out.dest = <<>>

C30_Witness ==
    /\ q.kind = "DialTranslate"
    /\ q.canDial
    /\ q.addr[1].tag = P_GARLIC32
    /\ q.out.err = "nil"
    /\ q.out.dest # <<>>

(***************************************************************************)
(* Listen: what a failure leaves; a transport without an upgrader.         *)
(***************************************************************************)
\* C32: whenever Listen has returned an error, the raw listener it obtained
\* from the inbound session during that call, if any, is not left open.
C32_NoRawListenerLeftOnError ==
    lastListen.outcome \in {"ListenFailed", "WrapFailed"} => ~lastListen.rawOpen

\* C34: on a transport without an upgrader, a Dial that got as far as the
\* wrapped connection has returned an error with the connection closed once and
\* no scope opened, and a Listen has returned an error (it has neither crashed
\* nor returned a listener) and has left no raw listener open.
C34_NoUpgraderFailsCleanly ==
    Upgrader = "nil" =>
        /\ \A d \in Dials :
               (Returned(d) /\ dial[d].addrs # NoAddrs) =>
                   /\ dial[d].result = [conn |-> "nil", err |-> "UpgraderNil"]
                   /\ dial[d].rawConn = "closed"
                   /\ dial[d].rawCloses = 1
                   /\ dial[d].nOpen = 0
                   /\ dial[d].nUpgrade = 0
        /\ lastListen.outcome \notin {"panic", "listener"}
        /\ lastListen.outcome \notin {"none", "ListenFailed", "WrapFailed"}
               => ~lastListen.rawOpen

(***************************************************************************)
(* Concurrent dials.                                                       *)
(***************************************************************************)
\* C33: every step of a Dial, its failure or cancellation included, changes
\* that Dial only: the raw connection, the scope and the result of the other
\* Dial running at the same time stay as they are.
C33_ConcurrentDialsIsolated ==
    [][\A d, e \in Dials :
           (d # e /\ dial'[d] # dial[d]) => dial'[e] = dial[e]]_vars

C33_Witness ==
    \E d, e \in Dials :
        /\ d # e
        /\ Failed(d)
        /\ dial[d].cancelAt = "upgrade"
        /\ dial[d].rawConn = "closed"
        /\ dial[d].scope = "done"
        /\ dial[e].pc = "upgrade"
        /\ dial[e].ctx = "live"
        /\ dial[e].rawConn = "open"
        /\ dial[e].scope = "open"

(***************************************************************************)
(* The builder function.                                                   *)
(***************************************************************************)
\* C35: a call of the builder function requests nothing of the provider,
\* changes no session and returns no error; every transport built refers to
\* the three sessions of the one construction, so there are three sessions
\* however many transports were built.
C35_BuilderFuncSharesSessions ==
    /\ [](build.transports # <<>> =>
              /\ build.err = "nil"
              /\ Len(build.calls) = Len(CreationOrder)
              /\ \A k \in Sessions : sessions[k] = "open"
              /\ \A i \in 1..Len(build.transports) :
                     /\ Len(build.transports[i]) = Len(CreationOrder)
                     /\ \A j \in 1..Len(CreationOrder) :
                            build.transports[i][j] = <<CreationOrder[j], build.suffix>>)
    /\ [][Len(build'.transports) > Len(build.transports) =>
              /\ build'.calls = build.calls
              /\ sessions' = sessions
              /\ build'.err = "nil"
              /\ build'.addr = build.addr]_vars

C35_Witness ==
    /\ Len(build.transports) >= 2
    /\ build.pc = "built"
    /\ Len(build.calls) = 3
    /\ build.transports[1] = build.transports[2]

(***************************************************************************)
(* Close, called more than once.                                           *)
(***************************************************************************)
\* C31: every call of Close() sends the provider exactly one close request,
\* for the primary session, whether or not the transport was closed before;
\* no close request is ever sent for the inbound or the outbound sub-session.
C31_EveryCloseForwardsOnce ==
    /\ [](/\ Len(closes.requests) = closes.calls
          /\ \A i \in 1..Len(closes.requests) : closes.requests[i] = "primary")
    /\ [][closes'.calls # closes.calls =>
              /\ closes'.calls = closes.calls + 1
              /\ closes'.requests = Append(closes.requests, "primary")]_vars

C31_Witness ==
    /\ closes.calls >= 2
    /\ closes.requests[1] = "primary"
    /\ closes.requests[2] = "primary"
    /\ AllClosed

====
